---- MODULE Spec2Model ----
(***************************************************************************)
(* A model of GeminiWebsocketClient                                        *)
(* (src/.history/client/js/ws/client_20250406184318.js): the connection    *)
(* lifecycle (connect, the open/error/close handlers, the reconnect timer, *)
(* disconnect) and the guarded send.                                       *)
(*                                                                         *)
(* The browser's WebSocket objects are the environment.  Channel c is the  *)
(* c-th object made by `new WebSocket(url)`; its promise (the one made by  *)
(* the same connect() call) has the same index.  One step of the model is  *)
(* one run-to-completion piece of JavaScript: a call by the caller, one    *)
(* event handler, or one timer callback.                                   *)
(***************************************************************************)
EXTENDS Integers, Sequences, FiniteSets, Bags, TLC

\* ---------------------------------------------------------------- bounds
MaxChannels == 3
MaxChannelsTraffic == 2
MaxChannelsReconnect == 6
MaxPayloads == 1
MaxChannelsSend == 1
MaxChannelsReceive == 1
MaxParts == 3
MaxChannelsLive == 4
MaxListeners == 3
MaxChannelsStream == 1
MaxDecoding == 2

\* ------------------------------------------------------ program constants
maxReconnectAttempts == 3
reconnectDelay == 2000
NormalClosure == 1000

NoChan == 0
NoError == "none"
\* The error objects an error event can carry.
Errors == {"e1", "e2"}
\* event.code of a close event when the peer ends an open channel: normal
\* closure, going away (1001), or the connection was lost (1006).
CloseCodes == {NormalClosure, 1001, 1006}
\* event.code of a close event after the client itself called close(1000): the
\* peer's Close frame echoes 1000, or no Close frame arrives at all (1006).
LocalCloseCodes == {NormalClosure, 1006}
\* event.code of the close event of a channel the browser failed.
FailedCloseCode == 1006
PayloadKinds == {"audio", "image", "text", "toolResponse"}

\* ------------------------------------------------------------- JS values
\* The scalar values the callers pass, as tokens: undefined (also an argument or
\* a key left out), null, the empty string, the booleans, and an object that
\* JSON.stringify cannot serialise (it refers to itself).
Undefined == "undefined"
Null == "null"
EmptyString == ""
JsTrue == "true"
JsFalse == "false"
Circular == "[Circular]"

\* if (v) / !v on a scalar.
Truthy(v) == v \notin {Undefined, Null, EmptyString, JsFalse}

\* A parameter with a default value: the default replaces undefined only.
DefaultArgFalsy(v, d) == IF Truthy(v) THEN v ELSE d
DefaultArg(v, d) == IF v = Undefined THEN d ELSE v

\* The arguments the caller passes to the send operations.
Base64Inputs == {Undefined, EmptyString, "QUJD", "REVG"}
TextInputs == {EmptyString, "hi"}
EndOfTurnInputs == {Undefined, JsTrue, JsFalse}
\* sendToolResponse(toolResponse): no argument (given = FALSE), or an object
\* whose id, output and error are each left out (undefined) or set.
ToolResponseInputs ==
    {[given |-> FALSE, id |-> Undefined, output |-> Undefined, error |-> Undefined]}
    \cup [given : {TRUE}, id : {Undefined, EmptyString, "x"},
          output : {Undefined, Null, "o", Circular}, error : {Undefined, EmptyString, "e"}]

VARIABLES
    ws,                 \* this.ws: NoChan (null) or the channel stored by an open handler
    isConnecting,       \* this.isConnecting
    connectionPromise,  \* this.connectionPromise: NoChan (null) or the promise's index
    reconnectAttempts,  \* this.reconnectAttempts
    sockets,            \* the WebSocket objects made so far: readyState and what was written
    promises,           \* the promises made so far: state and rejection value
    timers,             \* pending setTimeout callbacks (a bag)
    closePending,       \* the channel whose error event ran and whose close event is next
    chanLimit,          \* how many channels this run may make (a bound, fixed by Init)
    lastOp,             \* history: the step just taken
    emitted,            \* history: the events published by the step just taken
    scheduled,          \* history: the delays of the timers set by the step just taken
    attempt,            \* history: per channel, the events published for its attempt
    autoAttempts,       \* history: channels made by timer callbacks since the last open
                        \* (or since construction), -1 once the caller called connect() again
    decoding,           \* the frames received whose receive() awaits blobToJSON
    inbound,            \* the frame that the peer sends in this run (an input)
    outbound,           \* the send that the caller makes in this run (an input)
    eventListeners,     \* this._eventListeners: event name -> the callbacks registered
    invoked             \* history: the callbacks run by the emit just made, in order

vars == <<ws, isConnecting, connectionPromise, reconnectAttempts, sockets, promises,
          timers, closePending, chanLimit, lastOp, emitted, scheduled, attempt,
          autoAttempts, decoding, inbound, outbound, eventListeners, invoked>>

client == <<ws, isConnecting, connectionPromise, reconnectAttempts>>

Channels == 1..Len(sockets)

RECURSIVE Pow2(_)
Pow2(n) == IF n <= 0 THEN 1 ELSE 2 * Pow2(n - 1)

\* ------------------------------------------------------------- isConnected
IsConnectedIn(w, socks) == w # NoChan /\ socks[w].readyState = "OPEN"

isConnected == IsConnectedIn(ws, sockets)

\* ------------------------------------------------------------------- emit
\* An event as a listener sees it, with what the listener would observe of the
\* client at that moment: isConnected(), the counter, and what has been
\* written to the event's channel.
Event(name, c, code, err, w, n, socks) ==
    [name |-> name, ch |-> c, code |-> code, error |-> err,
     connected |-> IsConnectedIn(w, socks), attempts |-> n,
     written |-> IF c = NoChan THEN <<>> ELSE socks[c].sent]

\* event.reason of a close event; in the model each code comes with one reason.
CloseReason(code) ==
    IF code = NormalClosure THEN "done"
    ELSE IF code = 1001 THEN "going away"
    ELSE EmptyString

\* The `disconnected` event of the close handler: { code, reason }, published
\* while the counter is still n.
DisconnectedLate(c, code, w, n, socks) ==
    Event("disconnected", c, code, NoError, w,
          IF code # NormalClosure /\ n < maxReconnectAttempts THEN n + 1 ELSE n, socks)
    @@ [reason |-> CloseReason(code)]
Disconnected(c, code, w, n, socks) ==
    Event("disconnected", c, code, NoError, w, n, socks) @@ [reason |-> CloseReason(code)]

\* ------------------------------------------------------------ the envelopes
SetupMsg == [kind |-> "setup"]
PayloadMsg(k) == [kind |-> k]

\* ws.send on channel w.
Write(socks, w, msg) == [socks EXCEPT ![w].sent = Append(@, msg)]

\* sendJSON: writes when connected; its error is a rejected promise nobody awaits.
SendJSONSkipped(socks, w, msg) == socks
SendJSON(socks, w, msg) ==
    IF IsConnectedIn(w, socks) THEN Write(socks, w, msg) ELSE socks

\* JSON.stringify of an object whose values are scalars: a key whose value is
\* undefined is left out.
JsonObject(obj) == [k \in {j \in DOMAIN obj : obj[j] # Undefined} |-> obj[k]]

\* The envelopes as written (the JSON text): kind is the single top-level key.
RealtimeInputBare(mime, data) ==
    [kind |-> "realtimeInput", mediaChunks |-> <<JsonObject([data |-> data])>>]
RealtimeInput(mime, data) ==
    [kind |-> "realtimeInput",
     mediaChunks |-> <<JsonObject([mimeType |-> mime, data |-> data])>>]

ClientContent(text, turnComplete) ==
    [kind |-> "clientContent",
     turns |-> <<[role |-> "user", parts |-> JsonObject([text |-> text])]>>,
     turnComplete |-> turnComplete]

ToolResponse(result) == [kind |-> "toolResponse", functionResponses |-> result]

\* JSON.stringify throws on a value that refers to itself; of the values the
\* callers pass only a tool response's output can be one.
CanStringify(msg) ==
    "functionResponses" \in DOMAIN msg =>
        \A i \in DOMAIN msg.functionResponses :
            LET r == msg.functionResponses[i].response
            IN "output" \in DOMAIN r => r.output # Circular

\* safelySendJSON: writes when connected; a failing write is caught.  What it
\* returns, and what it does to the channels.
SafelySendJSONResult(socks, w, msg) == IsConnectedIn(w, socks) /\ CanStringify(msg)

\* What safelySendJSON raises: nothing, the error of a failing write is caught.
SafelySendJSONThrownUncaught(socks, w, msg) ==
    IF IsConnectedIn(w, socks) /\ ~CanStringify(msg) THEN "TypeError" ELSE NoError
SafelySendJSONThrown(socks, w, msg) == NoError

SafelySendJSONUnguarded(socks, w, msg) ==
    IF w # NoChan /\ CanStringify(msg) THEN Write(socks, w, msg) ELSE socks
SafelySendJSON(socks, w, msg) ==
    IF IsConnectedIn(w, socks) /\ CanStringify(msg) THEN Write(socks, w, msg) ELSE socks

\* ----------------------------------------------------------------- promises
Resolve(ps, c) ==
    IF ps[c].st = "pending" THEN [ps EXCEPT ![c] = [st |-> "resolved", err |-> NoError]]
    ELSE ps

RejectAsUnknown(ps, c, e) ==
    IF ps[c].st = "pending" THEN [ps EXCEPT ![c] = [st |-> "rejected", err |-> "Unknown"]]
    ELSE ps
Reject(ps, c, e) ==
    IF ps[c].st = "pending" THEN [ps EXCEPT ![c] = [st |-> "rejected", err |-> e]]
    ELSE ps

\* -------------------------------------------------------- the close handler
ShouldReconnectAlways(code, n) == code # NormalClosure
ShouldReconnectAnyCode(code, n) == n < maxReconnectAttempts
ShouldReconnect(code, n) == code # NormalClosure /\ n < maxReconnectAttempts

\* The delay, computed after the counter was incremented to n.
ReconnectDelayUnshifted(n) == reconnectDelay * Pow2(n)
ReconnectDelay(n) == reconnectDelay * Pow2(n - 1)

\* -------------------------------------------------------- the open handler
AttemptsKept(n) == n
AttemptsOnOpen(n) == 0

\* The step just taken: the operation; its channel (the one connect() made, the
\* one an event came from, the one disconnect() found in this.ws, the one a send
\* wrote to); that channel's readyState before the step; the close code (of a
\* close event, or the one disconnect() gave ws.close); the error of an error
\* event; what connect() returned; for a close event, the counter before it.
\* For a send operation: its arguments, what the guarded send returned to it
\* (ok; "-" when it was not reached), the error it raised to its caller, what
\* it returned to its caller ("-" when it raised an error), and the connection
\* state and the channels as they were before the call (pre).
NoOp == [op |-> "new", ch |-> NoChan, was |-> "-", code |-> 0, error |-> NoError,
         ret |-> NoChan, before |-> 0, arg |-> <<>>, ok |-> "-", threw |-> NoError,
         returned |-> "-", pre |-> <<>>]

NoAttempt == [connected |-> 0, connectionError |-> 0, disconnected |-> 0,
              failedOpen |-> FALSE]

TypeOK ==
    /\ ws \in Channels \cup {NoChan}
    /\ isConnecting \in BOOLEAN
    /\ connectionPromise \in Channels \cup {NoChan}
    /\ reconnectAttempts \in 0..maxReconnectAttempts
    /\ Len(promises) = Len(sockets)
    /\ Len(attempt) = Len(sockets)
    /\ Len(sockets) <= chanLimit
    /\ \A c \in Channels :
          /\ sockets[c].readyState \in {"CONNECTING", "OPEN", "CLOSING", "CLOSED"}
          /\ promises[c].st \in {"pending", "resolved", "rejected"}
    /\ closePending \in Channels \cup {NoChan}
    /\ IsABag(timers)

\* ------------------------------------------------------------------- Init
InitClient(limit) ==
    /\ ws = NoChan
    /\ isConnecting = FALSE
    /\ connectionPromise = NoChan
    /\ reconnectAttempts = 0
    /\ sockets = <<>>
    /\ promises = <<>>
    /\ timers = EmptyBag
    /\ closePending = NoChan
    /\ chanLimit = limit
    /\ lastOp = NoOp
    /\ emitted = <<>>
    /\ scheduled = <<>>
    /\ attempt = <<>>
    /\ autoAttempts = 0
    /\ decoding = <<>>
    /\ eventListeners = <<>>
    /\ invoked = <<>>

\* A run without a send of the four operations and without a frame.
NoCall == [op |-> "none", args |-> <<>>]

InitWith(limit) == InitClient(limit) /\ inbound = <<>> /\ outbound = NoCall

Init == InitWith(MaxChannels)

\* ---------------------------------------------------------------- connect
\* The body of connect(), called by the caller (op = "connect") or by a
\* reconnect timer (op = "timer").
ConnectCall(op) ==
    IF isConnected \/ isConnecting
    THEN /\ lastOp' = [NoOp EXCEPT !.op = op, !.ret = connectionPromise]
         /\ UNCHANGED <<client, sockets, promises, attempt>>
    ELSE /\ Len(sockets) < chanLimit
         /\ LET c == Len(sockets) + 1 IN
              /\ sockets' = Append(sockets, [readyState |-> "CONNECTING", sent |-> <<>>])
              /\ promises' = Append(promises, [st |-> "pending", err |-> NoError])
              /\ attempt' = Append(attempt, NoAttempt)
              /\ isConnecting' = TRUE
              /\ connectionPromise' = c
              /\ lastOp' = [NoOp EXCEPT !.op = op, !.ch = c, !.ret = c]
         /\ UNCHANGED <<ws, reconnectAttempts>>

Connect ==
    /\ ConnectCall("connect")
    /\ emitted' = <<>>
    /\ scheduled' = <<>>
    /\ UNCHANGED <<timers, closePending, chanLimit>>

\* The setTimeout callback set by the close handler: it calls connect().
TimerFires(d) ==
    /\ closePending = NoChan
    /\ BagIn(d, timers)
    /\ timers' = timers (-) SetToBag({d})
    /\ ConnectCall("timer")
    /\ emitted' = <<>>
    /\ scheduled' = <<>>
    /\ UNCHANGED <<closePending, chanLimit>>

\* ------------------------------------------------------- the open handler
OnOpen(c) ==
    /\ closePending = NoChan
    /\ sockets[c].readyState = "CONNECTING"
    /\ LET opened == [sockets EXCEPT ![c].readyState = "OPEN"]
           n1 == AttemptsOnOpen(reconnectAttempts)
           s1 == SendJSON(opened, c, SetupMsg)
       IN /\ ws' = c
          /\ isConnecting' = FALSE
          /\ reconnectAttempts' = n1
          /\ sockets' = s1
          /\ emitted' = <<Event("connected", c, 0, NoError, c, n1, s1)>>
          /\ promises' = Resolve(promises, c)
          /\ attempt' = [attempt EXCEPT ![c].connected = @ + 1]
    /\ lastOp' = [NoOp EXCEPT !.op = "open", !.ch = c, !.was = sockets[c].readyState]
    /\ scheduled' = <<>>
    /\ UNCHANGED <<connectionPromise, timers, closePending, chanLimit>>

\* ------------------------------------------------------ the error handler
\* The browser fails channel c: readyState becomes CLOSED, then the error event
\* and the close event are dispatched in one task.  Between the two handlers
\* only promise reactions (the caller's code) can run: closePending.
OnError(c, e) ==
    /\ closePending = NoChan
    /\ sockets[c].readyState \in {"CONNECTING", "OPEN"}
    /\ sockets' = [sockets EXCEPT ![c].readyState = "CLOSED"]
    /\ isConnecting' = FALSE
    /\ emitted' = <<Event("connection_error", c, 0, e, ws, reconnectAttempts, sockets')>>
    /\ promises' = Reject(promises, c, e)
    /\ attempt' = [attempt EXCEPT ![c].connectionError = @ + 1,
                                  ![c].failedOpen = (sockets[c].readyState = "CONNECTING")]
    /\ closePending' = c
    /\ lastOp' = [NoOp EXCEPT !.op = "error", !.ch = c, !.was = sockets[c].readyState,
                              !.error = e]
    /\ scheduled' = <<>>
    /\ UNCHANGED <<ws, connectionPromise, reconnectAttempts, timers, chanLimit>>

\* ------------------------------------------------------ the close handler
CloseHandler(c, code) ==
    /\ sockets' = [sockets EXCEPT ![c].readyState = "CLOSED"]
    /\ isConnecting' = FALSE
    /\ emitted' = <<Disconnected(c, code, ws, reconnectAttempts, sockets')>>
    /\ attempt' = [attempt EXCEPT ![c].disconnected = @ + 1]
    /\ IF ShouldReconnect(code, reconnectAttempts)
       THEN /\ reconnectAttempts' = reconnectAttempts + 1
            /\ timers' = timers (+) SetToBag({ReconnectDelay(reconnectAttempts')})
            /\ scheduled' = <<ReconnectDelay(reconnectAttempts')>>
       ELSE /\ UNCHANGED <<reconnectAttempts, timers>>
            /\ scheduled' = <<>>
    /\ closePending' = NoChan
    /\ lastOp' = [NoOp EXCEPT !.op = "close", !.ch = c, !.was = sockets[c].readyState,
                              !.code = code, !.before = reconnectAttempts]
    /\ UNCHANGED <<ws, connectionPromise, promises, chanLimit>>

\* The close event of a failed channel: it follows the error event, code 1006.
OnCloseFailed(c) ==
    /\ closePending = c
    /\ CloseHandler(c, FailedCloseCode)

\* The peer ends an open channel.
OnClosePeer(c, code) ==
    /\ closePending = NoChan
    /\ sockets[c].readyState = "OPEN"
    /\ CloseHandler(c, code)

\* The close event of a channel the client closed with close(1000, ...).
OnCloseLocal(c, code) ==
    /\ closePending = NoChan
    /\ sockets[c].readyState = "CLOSING"
    /\ CloseHandler(c, code)

\* -------------------------------------------------------------- disconnect
\* ws.close(1000, ...): an open channel starts closing; a closed one stays closed.
CloseSocket(socks, w) ==
    IF socks[w].readyState \in {"CONNECTING", "OPEN"}
    THEN [socks EXCEPT ![w].readyState = "CLOSING"]
    ELSE socks

Disconnect ==
    /\ IF ws # NoChan
       THEN /\ reconnectAttempts' = maxReconnectAttempts
            /\ sockets' = CloseSocket(sockets, ws)
            /\ ws' = NoChan
            /\ isConnecting' = FALSE
            /\ connectionPromise' = NoChan
       ELSE UNCHANGED <<client, sockets>>
    /\ lastOp' = IF ws # NoChan
                 THEN [NoOp EXCEPT !.op = "disconnect", !.ch = ws,
                                   !.was = sockets[ws].readyState, !.code = NormalClosure]
                 ELSE [NoOp EXCEPT !.op = "disconnect"]
    /\ emitted' = <<>>
    /\ scheduled' = <<>>
    /\ UNCHANGED <<promises, timers, closePending, chanLimit, attempt>>

\* -------------------------------------------------------------------- send
\* How many payload envelopes the run has written so far, over all channels.
RECURSIVE PayloadsWritten(_)
PayloadsWritten(socks) ==
    IF socks = <<>> THEN 0
    ELSE Cardinality({i \in DOMAIN Head(socks).sent : Head(socks).sent[i].kind # "setup"})
         + PayloadsWritten(Tail(socks))

\* sendAudio / sendImage / sendText / sendToolResponse with valid arguments.
Send(k) ==
    /\ isConnected => PayloadsWritten(sockets) < MaxPayloads
    /\ sockets' = SafelySendJSON(sockets, ws, PayloadMsg(k))
    /\ lastOp' = IF isConnected
                 THEN [NoOp EXCEPT !.op = "send", !.ch = ws, !.was = "OPEN"]
                 ELSE [NoOp EXCEPT !.op = "send"]
    /\ emitted' = <<>>
    /\ scheduled' = <<>>
    /\ UNCHANGED <<client, promises, timers, closePending, chanLimit, attempt>>

\* ------------------------------------------------------ the send operations
\* A send operation that reaches the guarded send with envelope msg; it returns
\* nothing to its caller, whatever the guarded send returned.
GuardedSend(op, args, msg) ==
    /\ SafelySendJSONResult(sockets, ws, msg) => PayloadsWritten(sockets) < MaxPayloads
    /\ sockets' = SafelySendJSON(sockets, ws, msg)
    /\ lastOp' = [NoOp EXCEPT !.op = op, !.arg = args, !.ch = ws,
                              !.was = IF ws = NoChan THEN "-" ELSE sockets[ws].readyState,
                              !.ok = IF SafelySendJSONResult(sockets, ws, msg)
                                     THEN JsTrue ELSE JsFalse,
                              !.threw = SafelySendJSONThrown(sockets, ws, msg),
                              !.returned = IF SafelySendJSONThrown(sockets, ws, msg) = NoError
                                           THEN Undefined ELSE "-",
                              !.pre = <<client, sockets>>]
    /\ emitted' = <<>>
    /\ scheduled' = <<>>
    /\ UNCHANGED <<client, promises, timers, closePending, chanLimit, attempt>>

\* A send operation that returns (err = NoError) or throws before the guarded send.
Unsent(op, args, err) ==
    /\ lastOp' = [NoOp EXCEPT !.op = op, !.arg = args, !.ch = ws,
                              !.was = IF ws = NoChan THEN "-" ELSE sockets[ws].readyState,
                              !.threw = err,
                              !.returned = IF err = NoError THEN Undefined ELSE "-",
                              !.pre = <<client, sockets>>]
    /\ emitted' = <<>>
    /\ scheduled' = <<>>
    /\ UNCHANGED <<client, sockets, promises, timers, closePending, chanLimit, attempt>>

AudioMime == "audio/pcm"
ImageMime == "image/jpeg"

SendMediaAlways(op, mime, base64) ==
    GuardedSend(op, <<base64>>, RealtimeInput(mime, base64))
SendMedia(op, mime, base64) ==
    IF ~Truthy(base64) THEN Unsent(op, <<base64>>, NoError)
    ELSE GuardedSend(op, <<base64>>, RealtimeInput(mime, base64))

SendAudio(base64audio) == SendMedia("sendAudio", AudioMime, base64audio)

SendImage(base64image) == SendMedia("sendImage", ImageMime, base64image)

SendText(text, endOfTurn) ==
    GuardedSend("sendText", <<text, endOfTurn>>,
                ClientContent(text, DefaultArg(endOfTurn, JsTrue)))

IdError == "Tool response must include an id"
OutputError == "Tool response must include an output when no error is provided"

\* sendToolResponse up to the guarded send: the error thrown, or the
\* functionResponses array.
ToolResponseResultUnchecked(tr) ==
    IF Truthy(tr.error)
    THEN [threw |-> NoError, result |-> <<[response |-> [error |-> tr.error], id |-> tr.id]>>]
    ELSE [threw |-> NoError, result |-> <<[response |-> [output |-> tr.output], id |-> tr.id]>>]
ToolResponseResultBoth(tr) ==
    IF ~tr.given \/ ~Truthy(tr.id) THEN [threw |-> IdError, result |-> <<>>]
    ELSE IF tr.output = Undefined /\ ~Truthy(tr.error)
    THEN [threw |-> OutputError, result |-> <<>>]
    ELSE [threw |-> NoError,
          result |-> <<[response |-> JsonObject([error |-> IF Truthy(tr.error) THEN tr.error
                                                           ELSE Undefined,
                                                 output |-> tr.output]),
                        id |-> tr.id]>>]
ToolResponseResult(tr) ==
    IF ~tr.given \/ ~Truthy(tr.id) THEN [threw |-> IdError, result |-> <<>>]
    ELSE IF Truthy(tr.error)
    THEN [threw |-> NoError, result |-> <<[response |-> [error |-> tr.error], id |-> tr.id]>>]
    ELSE IF tr.output = Undefined THEN [threw |-> OutputError, result |-> <<>>]
    ELSE [threw |-> NoError, result |-> <<[response |-> [output |-> tr.output], id |-> tr.id]>>]

SendToolResponse(toolResponse) ==
    LET r == ToolResponseResult(toolResponse) IN
    IF r.threw # NoError THEN Unsent("sendToolResponse", <<toolResponse>>, r.threw)
    ELSE GuardedSend("sendToolResponse", <<toolResponse>>, ToolResponse(r.result))

SendOps == {"sendAudio", "sendImage", "sendText", "sendToolResponse"}

\* The sends a caller makes: an operation and its arguments.
SendCalls ==
    {[op |-> "sendAudio", args |-> <<b>>] : b \in Base64Inputs}
    \cup {[op |-> "sendImage", args |-> <<b>>] : b \in Base64Inputs}
    \cup {[op |-> "sendText", args |-> <<t, e>>] : t \in TextInputs, e \in EndOfTurnInputs}
    \cup {[op |-> "sendToolResponse", args |-> <<tr>>] : tr \in ToolResponseInputs}

\* --------------------------------------------------------------- the frames
\* A frame as blobToJSON parsed it.  A JS object is the function from its keys
\* to their values ({} is <<>>), an array is a sequence.  A mime type is the
\* sequence of the pieces of its text, so that a prefix of the text is a prefix
\* of the sequence.
Has(obj, k) == k \in DOMAIN obj

\* obj.k for a key with scalar values.
Get(obj, k) == IF k \in DOMAIN obj THEN obj[k] ELSE Undefined

\* The objects with key k left out or set to one of vals.
Opt(k, vals) == {<<>>} \cup {k :> v : v \in vals}

PcmMime == <<"audio/pcm">>
PcmRateMime == <<"audio/pcm", ";rate=24000">>
PngMime == <<"image/png">>

TextPart == [text |-> "a"]
ImagePart == [inlineData |-> [mimeType |-> PngMime, data |-> "iVBO"]]
AudioPart == [inlineData |-> [mimeType |-> PcmMime, data |-> "QUJD"]]
AudioRatePart == [inlineData |-> [mimeType |-> PcmRateMime, data |-> "REVG"]]
\* An audio part whose payload is empty.
AudioEmptyPart == [inlineData |-> [mimeType |-> PcmMime, data |-> EmptyString]]
\* An inline-data part without a mimeType.
NoMimePart == [inlineData |-> [data |-> "QUJD"]]

FrameParts == {TextPart, ImagePart, AudioPart, AudioRatePart, AudioEmptyPart}

PartLists == UNION {[1..n -> FrameParts] : n \in 0..MaxParts}

\* A modelTurn without a parts list, or with an inline-data part that has no
\* mimeType.
MalformedTurns ==
    {[role |-> "model"], [parts |-> <<NoMimePart>>], [parts |-> <<AudioPart, NoMimePart>>]}

ModelTurns == {[parts |-> ps] : ps \in PartLists} \cup MalformedTurns

ServerContents ==
    {i @@ t @@ m : i \in Opt("interrupted", {JsTrue}),
                   t \in Opt("turnComplete", {JsTrue}),
                   m \in Opt("modelTurn", ModelTurns)}
    \cup {[interrupted |-> JsFalse],
          [interrupted |-> JsFalse, turnComplete |-> JsTrue,
           modelTurn |-> [parts |-> <<AudioPart, TextPart>>]]}

SomeToolCall == [functionCalls |-> <<[id |-> "x", name |-> "f"]>>]
SomeCancellation == [ids |-> <<"x">>]

\* The frames received: a serverContent of every shape, or none; a frame of
\* another kind; and toolCall, toolCallCancellation and serverContent together.
Frames ==
    Opt("serverContent", ServerContents)
    \cup {[setupComplete |-> <<>>]}
    \cup {a @@ b @@ c : a \in Opt("toolCall", {SomeToolCall}),
                        b \in Opt("toolCallCancellation", {SomeCancellation}),
                        c \in Opt("serverContent",
                                  {[interrupted |-> JsTrue],
                                   [turnComplete |-> JsTrue,
                                    modelTurn |-> [parts |-> <<AudioPart, TextPart>>]]})}

\* ----------------------------------------------------------------- receive
TypeError == "TypeError"

\* An event published by receive(), with the data passed to emit.
RxEvent(name, data) == [name |-> name, data |-> data]

\* String.prototype.startsWith.
StartsWith(str, prefix) ==
    Len(str) >= Len(prefix) /\ SubSeq(str, 1, Len(prefix)) = prefix

\* base64ToArrayBuffer: the bytes that the base64 text encodes.
Base64ToArrayBuffer(b64) ==
    IF b64 = "QUJD" THEN <<65, 66, 67>>
    ELSE IF b64 = "REVG" THEN <<68, 69, 70>>
    ELSE IF b64 = "iVBO" THEN <<137, 80, 78>>
    ELSE <<>>

\* The elements of seq at the indexes in keep, from index i on, in order.
RECURSIVE Pick(_, _, _)
Pick(seq, keep, i) ==
    IF i > Len(seq) THEN <<>>
    ELSE (IF i \in keep THEN <<seq[i]>> ELSE <<>>) \o Pick(seq, keep, i + 1)

\* The test of the first filter; it reads mimeType.startsWith.
IsAudioPart(p) == Has(p, "inlineData") /\ StartsWith(p.inlineData.mimeType, PcmMime)

\* The first filter throws on an inlineData without a mimeType.
FilterThrows(parts) ==
    \E i \in DOMAIN parts : Has(parts[i], "inlineData") /\ ~Has(parts[i].inlineData, "mimeType")

AudioIndexes(parts) == {i \in DOMAIN parts : IsAudioPart(parts[i])}

\* The second filter keeps the parts that are not (by identity) in audioParts.
OtherIndexesAll(parts) == DOMAIN parts
OtherIndexes(parts) == DOMAIN parts \ AudioIndexes(parts)

\* base64s.forEach: one `audio` event for each payload that is not empty.
RECURSIVE AudioEvents(_)
AudioEvents(audioParts) ==
    IF audioParts = <<>> THEN <<>>
    ELSE LET b64 == Get(Head(audioParts).inlineData, "data")
         IN (IF Truthy(b64) THEN <<RxEvent("audio", Base64ToArrayBuffer(b64))>> ELSE <<>>)
            \o AudioEvents(Tail(audioParts))

\* What a part of receive() does: the events it publishes, in order, and the
\* error it throws (after them).
Emits(events) == [threw |-> NoError, events |-> events]
Throws(events) == [threw |-> TypeError, events |-> events]

ModelTurnResultContentFirst(modelTurn) ==
    IF ~Has(modelTurn, "parts") THEN Throws(<<>>)
    ELSE IF FilterThrows(modelTurn.parts) THEN Throws(<<>>)
    ELSE LET parts == modelTurn.parts
             audioParts == Pick(parts, AudioIndexes(parts), 1)
             otherParts == Pick(parts, OtherIndexes(parts), 1)
         IN Emits((IF Len(otherParts) # 0
                   THEN <<RxEvent("content", [modelTurn |-> [parts |-> otherParts]])>>
                   ELSE <<>>)
                  \o AudioEvents(audioParts))
ModelTurnResult(modelTurn) ==
    IF ~Has(modelTurn, "parts") THEN Throws(<<>>)
    ELSE IF FilterThrows(modelTurn.parts) THEN Throws(<<>>)
    ELSE LET parts == modelTurn.parts
             audioParts == Pick(parts, AudioIndexes(parts), 1)
             otherParts == Pick(parts, OtherIndexes(parts), 1)
         IN Emits(AudioEvents(audioParts)
                  \o (IF Len(otherParts) # 0
                      THEN <<RxEvent("content", [modelTurn |-> [parts |-> otherParts]])>>
                      ELSE <<>>))

ServerContentResultNoStop(serverContent) ==
    LET first == IF Truthy(Get(serverContent, "interrupted"))
                 THEN <<RxEvent("interrupted", Undefined)>> ELSE <<>>
        turn == IF Truthy(Get(serverContent, "turnComplete"))
                THEN <<RxEvent("turn_complete", Undefined)>> ELSE <<>>
        rest == IF Has(serverContent, "modelTurn")
                THEN ModelTurnResult(serverContent.modelTurn) ELSE Emits(<<>>)
    IN [threw |-> rest.threw, events |-> first \o turn \o rest.events]
ServerContentResult(serverContent) ==
    IF Truthy(Get(serverContent, "interrupted"))
    THEN Emits(<<RxEvent("interrupted", Undefined)>>)
    ELSE LET turn == IF Truthy(Get(serverContent, "turnComplete"))
                     THEN <<RxEvent("turn_complete", Undefined)>> ELSE <<>>
             rest == IF Has(serverContent, "modelTurn")
                     THEN ModelTurnResult(serverContent.modelTurn) ELSE Emits(<<>>)
         IN [threw |-> rest.threw, events |-> turn \o rest.events]

\* The else branch: the frame is logged.
UnmatchedResultAsContent(response) == Emits(<<RxEvent("content", response)>>)
UnmatchedResult(response) == Emits(<<>>)

\* receive() after blobToJSON.
ReceiveResultContentFirst(response) ==
    IF Has(response, "serverContent") THEN ServerContentResult(response.serverContent)
    ELSE IF Has(response, "toolCall")
    THEN Emits(<<RxEvent("tool_call", response.toolCall)>>)
    ELSE IF Has(response, "toolCallCancellation")
    THEN Emits(<<RxEvent("tool_call_cancellation", response.toolCallCancellation)>>)
    ELSE UnmatchedResult(response)
ReceiveResult(response) ==
    IF Has(response, "toolCall")
    THEN Emits(<<RxEvent("tool_call", response.toolCall)>>)
    ELSE IF Has(response, "toolCallCancellation")
    THEN Emits(<<RxEvent("tool_call_cancellation", response.toolCallCancellation)>>)
    ELSE IF Has(response, "serverContent") THEN ServerContentResult(response.serverContent)
    ELSE UnmatchedResult(response)

\* The message handler: receive(event.data) runs up to its await.
OnMessage(c, frame) ==
    /\ closePending = NoChan
    /\ sockets[c].readyState = "OPEN"
    /\ decoding' = Append(decoding, [ch |-> c, response |-> frame])
    /\ lastOp' = [NoOp EXCEPT !.op = "message", !.ch = c, !.was = sockets[c].readyState]
    /\ emitted' = <<>>
    /\ scheduled' = <<>>
    /\ UNCHANGED <<client, sockets, promises, timers, closePending, chanLimit, attempt,
                   autoAttempts, inbound, outbound, eventListeners, invoked>>

\* blobToJSON: the promises of the frames being decoded are settled one at a
\* time, in an order that the reads of the blobs decide; any of them can be next.
BlobToJSONFifo(i) == i = 1
BlobToJSONSettles(i) == i \in DOMAIN decoding

\* receive() from its await on, for the i-th frame being decoded.
Receive(i) ==
    /\ BlobToJSONSettles(i)
    /\ LET r == ReceiveResult(decoding[i].response)
       IN /\ emitted' = r.events
          /\ lastOp' = [NoOp EXCEPT !.op = "receive", !.ch = decoding[i].ch,
                                    !.was = sockets[decoding[i].ch].readyState,
                                    !.arg = <<decoding[i].response>>,
                                    !.threw = r.threw,
                                    !.pre = <<client, sockets>>]
    /\ decoding' = SubSeq(decoding, 1, i - 1) \o SubSeq(decoding, i + 1, Len(decoding))
    /\ scheduled' = <<>>
    /\ UNCHANGED <<client, sockets, promises, timers, closePending, chanLimit, attempt,
                   autoAttempts, inbound, outbound, eventListeners, invoked>>

\* -------------------------------------------------------------- on and emit
\* The caller's callbacks: two that only run, and one that, when it runs,
\* registers the callback `adds` for the event it was called for.
NoCallback == "-"
Plain(id) == [id |-> id, adds |-> NoCallback]
Registrar == [id |-> "r", adds |-> "n"]
Callbacks == {Plain("a"), Plain("b"), Registrar}
ListenerEvents == {"audio", "content"}
EmitData == {"d1", "d2"}

\* on(eventName, callback) on the map ls.
OnResult(ls, name, cb) ==
    IF name \in DOMAIN ls THEN [ls EXCEPT ![name] = Append(@, cb)]
    ELSE (name :> <<cb>>) @@ ls

\* The for-of loop of emit over the array in the map, from index i on: the
\* iterator reads the array's length again at each step.  The map and the
\* calls made, [cb, data], at the end of the loop.
RECURSIVE EmitLoop(_, _, _, _, _)
EmitLoop(ls, name, data, i, calls) ==
    IF i > Len(ls[name]) THEN [listeners |-> ls, calls |-> calls]
    ELSE LET cb == ls[name][i]
             after == IF cb.adds = NoCallback THEN ls
                      ELSE OnResult(ls, name, Plain(cb.adds))
         IN EmitLoop(after, name, data, i + 1, Append(calls, [cb |-> cb.id, data |-> data]))

EmitResult(ls, name, data) ==
    IF name \notin DOMAIN ls THEN [listeners |-> ls, calls |-> <<>>]
    ELSE EmitLoop(ls, name, data, 1, <<>>)

\* How many callbacks are registered, over all events.
Registered(ls) ==
    LET names == DOMAIN ls
        RECURSIVE Sum(_)
        Sum(ns) == IF ns = {} THEN 0
                   ELSE LET n == CHOOSE x \in ns : TRUE IN Len(ls[n]) + Sum(ns \ {n})
    IN Sum(names)

ListenerStep(op, args) ==
    /\ lastOp' = [NoOp EXCEPT !.op = op, !.arg = args, !.pre = eventListeners]
    /\ emitted' = <<>>
    /\ scheduled' = <<>>
    /\ UNCHANGED <<client, sockets, promises, timers, closePending, chanLimit, attempt,
                   autoAttempts, decoding, inbound, outbound>>

On(name, cb) ==
    /\ Registered(eventListeners) < MaxListeners
    /\ eventListeners' = OnResult(eventListeners, name, cb)
    /\ invoked' = <<>>
    /\ ListenerStep("on", <<name, cb>>)

Emit(name, data) ==
    /\ Registered(eventListeners) <= MaxListeners
    /\ eventListeners' = EmitResult(eventListeners, name, data).listeners
    /\ invoked' = EmitResult(eventListeners, name, data).calls
    /\ ListenerStep("emit", <<name, data>>)

\* A step that receives no frame, makes none of the run's sends and is not a
\* call of on or emit by the caller.
NoTraffic == UNCHANGED <<decoding, inbound, outbound, eventListeners, invoked>>

\* -------------------------------------------------------------------- Next
\* Such a step, in a specification that does not count the automatic attempts.
LifecycleOnly == NoTraffic /\ UNCHANGED autoAttempts

\* The connection lifecycle: the caller's connect() and disconnect(), the
\* reconnect timers and the channels' events.
Next ==
    \/ Connect /\ LifecycleOnly
    \/ Disconnect /\ LifecycleOnly
    \/ \E d \in BagToSet(timers) : TimerFires(d) /\ LifecycleOnly
    \/ \E c \in Channels : OnOpen(c) /\ LifecycleOnly
    \/ \E c \in Channels, e \in Errors : OnError(c, e) /\ LifecycleOnly
    \/ \E c \in Channels : OnCloseFailed(c) /\ LifecycleOnly
    \/ \E c \in Channels, code \in CloseCodes : OnClosePeer(c, code) /\ LifecycleOnly
    \/ \E c \in Channels, code \in LocalCloseCodes :
          OnCloseLocal(c, code) /\ LifecycleOnly

Spec == Init /\ [][Next]_vars

\* The lifecycle together with the caller's sends.
TrafficNext ==
    \/ Next
    \/ \E k \in PayloadKinds : Send(k) /\ LifecycleOnly

SpecTraffic == InitWith(MaxChannelsTraffic) /\ [][TrafficNext]_vars

\* One of the four send operations with its arguments, called any number of
\* times in every state of the connection: the caller's connect() and
\* disconnect() and the channels' events, with the reconnect timers still pending.
SendNext ==
    \/ Connect /\ LifecycleOnly
    \/ Disconnect /\ LifecycleOnly
    \/ \E c \in Channels : OnOpen(c) /\ LifecycleOnly
    \/ \E c \in Channels, e \in Errors : OnError(c, e) /\ LifecycleOnly
    \/ \E c \in Channels : OnCloseFailed(c) /\ LifecycleOnly
    \/ \E c \in Channels, code \in CloseCodes : OnClosePeer(c, code) /\ LifecycleOnly
    \/ \E c \in Channels, code \in LocalCloseCodes :
          OnCloseLocal(c, code) /\ LifecycleOnly
    \/ outbound.op = "sendAudio" /\ SendAudio(outbound.args[1]) /\ LifecycleOnly
    \/ outbound.op = "sendImage" /\ SendImage(outbound.args[1]) /\ LifecycleOnly
    \/ outbound.op = "sendText" /\ SendText(outbound.args[1], outbound.args[2]) /\ LifecycleOnly
    \/ outbound.op = "sendToolResponse" /\ SendToolResponse(outbound.args[1]) /\ LifecycleOnly

InitSend == InitClient(MaxChannelsSend) /\ inbound = <<>> /\ outbound \in SendCalls

SpecSend == InitSend /\ [][SendNext]_vars

\* A frame of any shape, received on an open channel, one at a time, and
\* dispatched while the channel is open, closing or closed.
ReceiveNext ==
    \/ Connect /\ LifecycleOnly
    \/ Disconnect /\ LifecycleOnly
    \/ \E c \in Channels : OnOpen(c) /\ LifecycleOnly
    \/ \E c \in Channels : OnClosePeer(c, NormalClosure) /\ LifecycleOnly
    \/ \E c \in Channels : OnCloseLocal(c, NormalClosure) /\ LifecycleOnly
    \/ \E c \in Channels : decoding = <<>> /\ OnMessage(c, inbound)
    \/ \E i \in DOMAIN decoding : Receive(i)

InitReceive == InitClient(MaxChannelsReceive) /\ inbound \in Frames /\ outbound = NoCall

SpecReceive == InitReceive /\ [][ReceiveNext]_vars

\* The lifecycle of a caller that never calls disconnect() and calls connect()
\* only when the client is neither connected nor connecting, with the history
\* of the automatic attempts: a timer callback that makes a channel is one
\* automatic attempt; an open starts the count again; a connect() by the
\* caller, other than the first call of the run, ends the counting.
CountAttempts ==
    autoAttempts' =
       IF lastOp'.op = "open" THEN 0
       ELSE IF lastOp'.op = "connect" /\ sockets # <<>> THEN -1
       ELSE IF lastOp'.op = "timer" /\ lastOp'.ch # NoChan /\ autoAttempts # -1
            THEN autoAttempts + 1
       ELSE autoAttempts

ReconnectNext ==
    \/ ~isConnected /\ ~isConnecting /\ Connect /\ CountAttempts /\ NoTraffic
    \/ \E d \in BagToSet(timers) : TimerFires(d) /\ CountAttempts /\ NoTraffic
    \/ \E c \in Channels : OnOpen(c) /\ CountAttempts /\ NoTraffic
    \/ \E c \in Channels : OnError(c, "e1") /\ CountAttempts /\ NoTraffic
    \/ \E c \in Channels : OnCloseFailed(c) /\ CountAttempts /\ NoTraffic
    \/ \E c \in Channels, code \in {NormalClosure, 1006} :
          OnClosePeer(c, code) /\ CountAttempts /\ NoTraffic

SpecReconnect == InitWith(MaxChannelsReconnect) /\ [][ReconnectNext]_vars

\* The lifecycle of a caller that never calls disconnect(), with the scheduling
\* of the browser: a pending timer fires at some time, and the close event of a
\* failed channel follows its error event (they are dispatched by one task).
\* The peer's closures and the failures are the environment's choice.
LiveNext ==
    \/ Connect /\ LifecycleOnly
    \/ \E d \in BagToSet(timers) : TimerFires(d) /\ LifecycleOnly
    \/ \E c \in Channels : OnOpen(c) /\ LifecycleOnly
    \/ \E c \in Channels : OnError(c, "e1") /\ LifecycleOnly
    \/ \E c \in Channels : OnCloseFailed(c) /\ LifecycleOnly
    \/ \E c \in Channels, code \in {NormalClosure, 1006} :
          OnClosePeer(c, code) /\ LifecycleOnly

TimersFire == WF_vars(\E d \in BagToSet(timers) : TimerFires(d) /\ LifecycleOnly)
CloseFollowsError == WF_vars(\E c \in Channels : OnCloseFailed(c) /\ LifecycleOnly)

SpecLive ==
    InitWith(MaxChannelsLive) /\ [][LiveNext]_vars /\ TimersFire /\ CloseFollowsError

\* The caller registers callbacks and events are published, in any order.
EmitNext ==
    \/ \E name \in ListenerEvents, cb \in Callbacks : On(name, cb)
    \/ \E name \in ListenerEvents, data \in EmitData : Emit(name, data)

SpecEmit == InitWith(MaxChannels) /\ [][EmitNext]_vars

\* A stream of frames on one channel: a frame arrives while earlier frames are
\* still being decoded.
StreamFrames ==
    {[toolCall |-> SomeToolCall],
     [toolCallCancellation |-> SomeCancellation],
     [serverContent |-> [turnComplete |-> JsTrue]],
     [serverContent |-> [modelTurn |-> [parts |-> <<AudioPart, TextPart>>]]],
     [setupComplete |-> <<>>]}

StreamNext ==
    \/ Connect /\ LifecycleOnly
    \/ \E c \in Channels : OnOpen(c) /\ LifecycleOnly
    \/ \E c \in Channels : OnClosePeer(c, NormalClosure) /\ LifecycleOnly
    \/ \E c \in Channels, frame \in StreamFrames :
          Len(decoding) < MaxDecoding /\ OnMessage(c, frame)
    \/ \E i \in DOMAIN decoding : Receive(i)

SpecStream == InitWith(MaxChannelsStream) /\ [][StreamNext]_vars

\* =================================================================== claims

\* C1: if disconnect() is called while a reconnect timer is pending, the timer,
\* when it fires, opens no channel.  Stated for the timer that fires right after
\* the call: it was pending during the call.
C1_TimerAfterDisconnectInert ==
    [][(lastOp.op = "disconnect" /\ timers # EmptyBag /\ lastOp'.op = "timer")
          => lastOp'.ch = NoChan]_vars

\* What the caller of connect() gets: the promise returned, or, when connect()
\* returned null, a promise already resolved.
Outcome(p) == IF p = NoChan THEN [st |-> "resolved", err |-> NoError] ELSE promises[p]

\* C2: a connect() call (the caller's or a timer's) made while the client is open,
\* or while an earlier attempt's channel is still connecting, makes no channel and
\* returns that attempt's result.
C2_SingleInFlight ==
    lastOp.op \in {"connect", "timer"} =>
        /\ \A c \in Channels \ {lastOp.ch} :
              sockets[c].readyState = "CONNECTING" =>
                  lastOp.ch = NoChan /\ lastOp.ret = c
        /\ isConnected => lastOp.ch = NoChan /\ Outcome(lastOp.ret) = promises[ws]

\* The close event that follows the failure of the first attempt during open.
FirstAttemptFailed ==
    lastOp.op = "close" /\ lastOp.ch = 1 /\ attempt[1].failedOpen

\* C3 as claimed: when the first attempt fails during open, no reconnect is scheduled.
C3_StaysFailed == FirstAttemptFailed => scheduled = <<>> /\ timers = EmptyBag

\* C3 as amended: when the first attempt fails during open, its close event
\* schedules exactly one reconnect, 2000 ms later, and the counter becomes 1; a
\* further channel is made only by that timer or by a connect() of the caller.
C3_FirstFailureRetries ==
    /\ [](FirstAttemptFailed =>
             /\ lastOp.before = 0
             /\ reconnectAttempts = 1
             /\ scheduled = <<2000>>
             /\ timers = SetToBag({2000}))
    /\ [][Len(sockets') > Len(sockets) => lastOp'.op \in {"connect", "timer"}]_vars

C3_Witness == FirstAttemptFailed /\ Len(sockets) = 1

\* C4: a close event with a non-normal code that finds the counter at n schedules,
\* for n = 0, 1, 2, exactly one reconnect with delay 2000, 4000, 8000 and makes the
\* counter n + 1; for n = 3 it schedules nothing and the counter stays 3.
C4_Backoff ==
    (lastOp.op = "close" /\ lastOp.code # 1000) =>
        LET n == lastOp.before IN
        /\ n \in 0..3
        /\ n = 0 => scheduled = <<2000>> /\ BagIn(2000, timers) /\ reconnectAttempts = 1
        /\ n = 1 => scheduled = <<4000>> /\ BagIn(4000, timers) /\ reconnectAttempts = 2
        /\ n = 2 => scheduled = <<8000>> /\ BagIn(8000, timers) /\ reconnectAttempts = 3
        /\ n = 3 => scheduled = <<>> /\ reconnectAttempts = 3

C4_Witness ==
    /\ lastOp.op = "close" /\ lastOp.code = 1006 /\ lastOp.before = 2
    /\ timers = SetToBag({8000})

\* C5: without a connect() by the caller, at most 3 automatic reconnect attempts
\* are made after the last successful open (or after construction).
C5_AtMostThreeAutoAttempts == autoAttempts <= 3

\* C6: on every channel that has opened, the first message written is the setup
\* envelope, it is written once, and so no payload envelope precedes it.
C6_SetupFirst ==
    \A c \in Channels :
        LET s == sockets[c].sent IN
        /\ attempt[c].connected > 0 => s # <<>>
        /\ s # <<>> => s[1] = SetupMsg
        /\ \A i \in 2..Len(s) : s[i] # SetupMsg

C6_Witness ==
    \E c \in Channels : c > 1 /\ Len(sockets[c].sent) = 2 /\ sockets[c].sent[2].kind = "audio"

\* C7: each channel open publishes exactly one `connected` event and resolves the
\* attempt's promise; when it is published the client is connected, the counter
\* is 0 and the setup message has been written.
C7_ConnectedOnOpen ==
    /\ lastOp.op = "open" =>
          /\ Len(emitted) = 1
          /\ emitted[1].name = "connected"
          /\ emitted[1].ch = lastOp.ch
          /\ emitted[1].connected
          /\ emitted[1].attempts = 0
          /\ emitted[1].written = <<SetupMsg>>
          /\ promises[lastOp.ch].st = "resolved"
    /\ \A i \in DOMAIN emitted : emitted[i].name = "connected" => lastOp.op = "open"
    /\ \A c \in Channels :
          attempt[c].connected = IF sockets[c].readyState = "CONNECTING" \/ attempt[c].failedOpen
                                 THEN 0 ELSE 1

\* An open of a reconnection made after failed attempts.
C7_Witness == lastOp.op = "open" /\ lastOp.ch = 3 /\ attempt[1].failedOpen /\ attempt[2].failedOpen

\* C8: when an attempt fails during open, exactly one `connection_error` event
\* with the error is published, the attempt's promise is rejected with that
\* error, and no `connected` event is published for the attempt.
C8_ConnectionError ==
    /\ (lastOp.op = "error" /\ lastOp.was = "CONNECTING") =>
          /\ Len(emitted) = 1
          /\ emitted[1].name = "connection_error"
          /\ emitted[1].ch = lastOp.ch
          /\ emitted[1].error = lastOp.error
          /\ promises[lastOp.ch] = [st |-> "rejected", err |-> lastOp.error]
    /\ \A c \in Channels :
          attempt[c].failedOpen =>
              /\ attempt[c].connectionError = 1
              /\ attempt[c].connected = 0
              /\ promises[c].st = "rejected"

C8_Witness ==
    /\ lastOp.op = "close" /\ lastOp.ch = 2 /\ attempt[2].failedOpen
    /\ promises[2] = [st |-> "rejected", err |-> "e2"]

\* C9: after disconnect() the counter is 3, whatever the state it was called in.
C9_DisconnectSetsMax == lastOp.op = "disconnect" => reconnectAttempts = 3

\* The close event of a channel that disconnect() closed while it was open.
\* C10: disconnect() on an open channel closes it with code 1000 and leaves the
\* client not connected, not connecting and without a stored promise; the close
\* event of that channel schedules no reconnect.
C10_DisconnectOpen ==
    /\ (lastOp.op = "disconnect" /\ lastOp.was = "OPEN") =>
          /\ lastOp.code = 1000
          /\ sockets[lastOp.ch].readyState = "CLOSING"
          /\ ~isConnected
          /\ ~isConnecting
          /\ connectionPromise = NoChan
    /\ (lastOp.op = "close" /\ lastOp.was = "CLOSING") => scheduled = <<>>

\* ------------------------------------------------------------ the sends
\* The connection state and the channels before the send just made.
PreClient == lastOp.pre[1]
PreSockets == lastOp.pre[2]
WasConnected == IsConnectedIn(PreClient[1], PreSockets)

\* The send just made wrote exactly msg, to the channel in this.ws.
WroteOnly(msg) == sockets = Write(PreSockets, PreClient[1], msg)

\* C11: a send operation called while isConnected() is false writes nothing to
\* any channel; one that writes appends one payload envelope to the channel in
\* this.ws, which is open.
C11_WriteOnlyWhenOpen ==
    lastOp.op \in SendOps =>
        /\ ~WasConnected => sockets = PreSockets
        /\ sockets # PreSockets =>
              /\ PreSockets[PreClient[1]].readyState = "OPEN"
              /\ \E k \in {"realtimeInput", "clientContent", "toolResponse"} :
                    LET s == sockets[PreClient[1]].sent
                    IN s[Len(s)].kind = k /\ WroteOnly(s[Len(s)])

\* A send on a channel that is still in this.ws but closed.
C11_Witness ==
    /\ lastOp.op = "sendAudio" /\ lastOp.arg = <<"QUJD">>
    /\ lastOp.ch # NoChan /\ lastOp.was = "CLOSED" /\ lastOp.ok = JsFalse

MediaMime == IF lastOp.op = "sendAudio" THEN "audio/pcm" ELSE "image/jpeg"

MediaSent ==
    /\ lastOp.op \in {"sendAudio", "sendImage"}
    /\ lastOp.arg[1] \notin {Undefined, EmptyString}

MediaEnvelopeWritten ==
    WroteOnly([kind |-> "realtimeInput",
               mediaChunks |-> <<[mimeType |-> MediaMime, data |-> lastOp.arg[1]]>>])

\* C12 as claimed: sendAudio / sendImage with a non-empty input writes, while
\* connected, exactly one realtime-input envelope with one media chunk of the
\* mime and the input; while disconnected it writes nothing and returns a
\* failed-send indication.
C12_MediaReturnsFailure ==
    MediaSent =>
        IF WasConnected THEN MediaEnvelopeWritten
        ELSE sockets = PreSockets /\ lastOp.returned = JsFalse

\* C12 as amended: ... while disconnected it writes nothing, the guarded send
\* yields false, and the operation returns undefined to its caller, as it
\* does when the send succeeds.
C12_MediaEnvelope ==
    MediaSent =>
        /\ lastOp.threw = NoError
        /\ lastOp.returned = Undefined
        /\ IF WasConnected THEN MediaEnvelopeWritten /\ lastOp.ok = JsTrue
           ELSE sockets = PreSockets /\ lastOp.ok = JsFalse

C12_Witness ==
    /\ lastOp.op = "sendImage" /\ lastOp.arg = <<"REVG">> /\ lastOp.ok = JsTrue
    /\ Len(sockets[ws].sent) = 2

\* The argument of the sendToolResponse just made.
ToolResponseArg == lastOp.arg[1]

\* C13: sendToolResponse without a call id, or with neither an output nor an
\* error, raises an argument error to its caller, writes nothing, publishes no
\* event and leaves the connection state unchanged, connected or not.
C13_InvalidToolResponse ==
    (/\ lastOp.op = "sendToolResponse"
     /\ \/ ~ToolResponseArg.given
        \/ ToolResponseArg.id = Undefined
        \/ ToolResponseArg.output = Undefined /\ ToolResponseArg.error = Undefined) =>
        /\ lastOp.threw \in
              IF ~ToolResponseArg.given \/ ToolResponseArg.id = Undefined
              THEN {"Tool response must include an id"}
              ELSE {"Tool response must include an id",
                    "Tool response must include an output when no error is provided"}
        /\ lastOp.ok = "-"
        /\ sockets = PreSockets
        /\ client = PreClient
        /\ emitted = <<>>

C13_Witness ==
    /\ lastOp.op = "sendToolResponse" /\ isConnected
    /\ ToolResponseArg = [given |-> TRUE, id |-> "x", output |-> Undefined, error |-> Undefined]
    /\ lastOp.threw # NoError

\* The tool-response envelope with one function response for the call id.
OneFunctionResponse(response) ==
    WroteOnly([kind |-> "toolResponse",
               functionResponses |-> <<[response |-> response, id |-> ToolResponseArg.id]>>])

\* C14 as claimed: a sendToolResponse with a call id and an output or an error,
\* made while connected, writes one tool-response envelope with one function
\* response for the id, whose response is { error } whenever an error is
\* supplied and { output } otherwise.
C14_ErrorWheneverSupplied ==
    (/\ lastOp.op = "sendToolResponse" /\ WasConnected
     /\ ToolResponseArg.given /\ ToolResponseArg.id # Undefined
     /\ ToolResponseArg.output # Undefined \/ ToolResponseArg.error # Undefined) =>
        IF ToolResponseArg.error # Undefined
        THEN OneFunctionResponse([error |-> ToolResponseArg.error])
        ELSE OneFunctionResponse([output |-> ToolResponseArg.output])

\* C14 as amended: ... whose response is { error } whenever a non-empty error is
\* supplied, with or without an output, and { output } when no error or an empty
\* one is supplied with an output; an output that cannot be serialised writes
\* nothing.
C14_ToolResponseEnvelope ==
    (/\ lastOp.op = "sendToolResponse" /\ WasConnected
     /\ ToolResponseArg.given /\ ToolResponseArg.id \notin {Undefined, EmptyString}) =>
        IF ToolResponseArg.error \notin {Undefined, EmptyString}
        THEN OneFunctionResponse([error |-> ToolResponseArg.error])
        ELSE IF ToolResponseArg.output = Undefined
        THEN lastOp.threw # NoError /\ sockets = PreSockets
        ELSE IF ToolResponseArg.output = Circular
        THEN lastOp.threw = NoError /\ lastOp.ok = JsFalse /\ sockets = PreSockets
        ELSE OneFunctionResponse([output |-> ToolResponseArg.output])

C14_Witness ==
    /\ lastOp.op = "sendToolResponse" /\ lastOp.ok = JsTrue
    /\ ToolResponseArg = [given |-> TRUE, id |-> "x", output |-> "o", error |-> "e"]

\* The send just made had arguments that pass the operation's validation.
ValidSend ==
    /\ lastOp.op \in SendOps
    /\ lastOp.op = "sendToolResponse" =>
          /\ ToolResponseArg.given
          /\ ToolResponseArg.id \notin {Undefined, EmptyString}
          /\ \/ ToolResponseArg.error \notin {Undefined, EmptyString}
             \/ ToolResponseArg.output # Undefined

\* C15: a send operation with valid arguments raises no error to its caller in
\* any state of the connection, also when the write fails; a send that writes
\* nothing yields false from the guarded send at most, and leaves the channels,
\* the connection state, the timers and the events as they were.
C15_SendNeverThrows ==
    ValidSend =>
        /\ lastOp.threw = NoError
        /\ lastOp.ok = JsTrue <=> sockets # PreSockets
        /\ lastOp.ok # JsTrue => sockets = PreSockets
        /\ client = PreClient
        /\ emitted = <<>>
        /\ scheduled = <<>>

\* A write that fails on an open channel.
C15_Witness ==
    /\ lastOp.op = "sendToolResponse" /\ lastOp.was = "OPEN" /\ lastOp.ok = JsFalse
    /\ ToolResponseArg.output = Circular

\* ---------------------------------------------------------- the dispatcher
\* The frame that the receive() just run got from blobToJSON.
Response == lastOp.arg[1]

\* It is a serverContent frame: serverContent is its variant.
ServerContentFrame ==
    /\ lastOp.op = "receive"
    /\ ~Has(Response, "toolCall")
    /\ ~Has(Response, "toolCallCancellation")
    /\ Has(Response, "serverContent")

EventsNamed(name) == SelectSeq(emitted, LAMBDA e : e.name = name)

\* C16: a serverContent frame with interrupted = true publishes one
\* `interrupted` event and no other event, whatever else it carries.
C16_InterruptedOnly ==
    (ServerContentFrame /\ Get(Response.serverContent, "interrupted") = JsTrue) =>
        /\ Len(emitted) = 1
        /\ emitted[1].name = "interrupted"
        /\ lastOp.threw = NoError

C16_Witness ==
    /\ ServerContentFrame
    /\ Response.serverContent =
          [interrupted |-> JsTrue, turnComplete |-> JsTrue,
           modelTurn |-> [parts |-> <<AudioPart, TextPart, AudioRatePart>>]]
    /\ Len(emitted) = 1

\* A serverContent frame that is not interrupted and has a modelTurn with a list
\* of parts, each an opaque part or an inline-data part with its mimeType.
PartsFrame ==
    /\ ServerContentFrame
    /\ Get(Response.serverContent, "interrupted") # JsTrue
    /\ Has(Response.serverContent, "modelTurn")
    /\ Has(Response.serverContent.modelTurn, "parts")
    /\ \A i \in DOMAIN Response.serverContent.modelTurn.parts :
          LET p == Response.serverContent.modelTurn.parts[i]
          IN Has(p, "inlineData") => Has(p.inlineData, "mimeType")

FrameAudio(p) == Has(p, "inlineData") /\ Head(p.inlineData.mimeType) = "audio/pcm"
FrameAudioWithData(p) == FrameAudio(p) /\ p.inlineData.data # EmptyString
FrameOther(p) == ~FrameAudio(p)

\* The events of the frame are one `audio` event for each of the parts audio, in
\* order, and one `content` event with the parts other if there are any.
AudioAndContent(audio, other) ==
    /\ Len(EventsNamed("audio")) = Len(audio)
    /\ \A i \in 1..Len(audio) :
          EventsNamed("audio")[i].data = Base64ToArrayBuffer(audio[i].inlineData.data)
    /\ Len(EventsNamed("content")) = IF Len(other) = 0 THEN 0 ELSE 1
    /\ Len(other) # 0 => EventsNamed("content")[1].data = [modelTurn |-> [parts |-> other]]

\* C17 as claimed: such a frame publishes one `audio` event for each audio
\* inline-data part, in input order, and one `content` event iff there is a
\* non-audio part, carrying the non-audio parts in their order.
C17_OneAudioPerPart ==
    PartsFrame =>
        LET parts == Response.serverContent.modelTurn.parts
        IN AudioAndContent(SelectSeq(parts, FrameAudio), SelectSeq(parts, FrameOther))

\* C17 as amended: ... one `audio` event for each audio inline-data part whose
\* payload is not empty; an audio part with an empty payload publishes no event
\* and is in no `content` event.
C17_OneAudioPerPayload ==
    PartsFrame =>
        LET parts == Response.serverContent.modelTurn.parts
        IN /\ AudioAndContent(SelectSeq(parts, FrameAudioWithData),
                              SelectSeq(parts, FrameOther))
           /\ lastOp.threw = NoError

C17_Witness ==
    /\ PartsFrame
    /\ Response.serverContent.modelTurn.parts = <<AudioPart, TextPart, AudioRatePart>>
    /\ Len(emitted) = 3

\* C18: a frame with toolCall publishes one `tool_call` event with it and no
\* other event, whatever else the frame has; a frame with toolCallCancellation
\* and no toolCall publishes one `tool_call_cancellation` event and no other.
C18_FirstMatch ==
    lastOp.op = "receive" =>
        /\ Has(Response, "toolCall") =>
              /\ Len(emitted) = 1
              /\ emitted[1].name = "tool_call"
              /\ emitted[1].data = Response.toolCall
        /\ (~Has(Response, "toolCall") /\ Has(Response, "toolCallCancellation")) =>
              /\ Len(emitted) = 1
              /\ emitted[1].name = "tool_call_cancellation"
              /\ emitted[1].data = Response.toolCallCancellation

C18_Witness ==
    /\ lastOp.op = "receive"
    /\ DOMAIN Response = {"toolCall", "toolCallCancellation", "serverContent"}
    /\ Len(emitted) = 1

\* C19: receive() raises no error, whatever the shape of the frame.
C19_NeverThrows == lastOp.op = "receive" => lastOp.threw = NoError

\* C20: a frame with none of toolCall, toolCallCancellation and serverContent
\* publishes no event and leaves the connection state and the channels as they
\* were.
C20_UnmatchedSilent ==
    (/\ lastOp.op = "receive"
     /\ ~Has(Response, "toolCall")
     /\ ~Has(Response, "toolCallCancellation")
     /\ ~Has(Response, "serverContent")) =>
        /\ emitted = <<>>
        /\ lastOp.threw = NoError
        /\ client = PreClient
        /\ sockets = PreSockets
        /\ scheduled = <<>>

C20_Witness ==
    /\ lastOp.op = "receive" /\ lastOp.was = "OPEN"
    /\ DOMAIN Response = {"setupComplete"}
    /\ isConnected

\* C21: sendAudio and sendImage called with an empty string or with no argument
\* do nothing in every connection state: nothing is written, the guarded send
\* is not reached, no error is raised, no event is published, no timer is set
\* and the connection state is as it was.
C21_EmptyMediaNoOp ==
    (/\ lastOp.op \in {"sendAudio", "sendImage"}
     /\ lastOp.arg[1] \in {Undefined, EmptyString}) =>
        /\ sockets = PreSockets
        /\ client = PreClient
        /\ lastOp.ok = "-"
        /\ lastOp.threw = NoError
        /\ lastOp.returned = Undefined
        /\ emitted = <<>>
        /\ scheduled = <<>>

\* An empty input while the channel is open.
C21_Witness ==
    /\ lastOp.op = "sendAudio" /\ lastOp.arg = <<EmptyString>>
    /\ lastOp.was = "OPEN" /\ isConnected

\* C22: sendText(text, endOfTurn) while connected writes exactly one
\* client-content envelope with one turn of role "user" carrying the text, whose
\* turnComplete is endOfTurn, and true when endOfTurn is left out; while not
\* connected it writes nothing.
C22_TextEnvelope ==
    lastOp.op = "sendText" =>
        IF WasConnected
        THEN WroteOnly([kind |-> "clientContent",
                        turns |-> <<[role |-> "user", parts |-> [text |-> lastOp.arg[1]]]>>,
                        turnComplete |-> IF lastOp.arg[2] = Undefined THEN JsTrue
                                         ELSE lastOp.arg[2]])
        ELSE sockets = PreSockets

C22_Witness ==
    /\ lastOp.op = "sendText" /\ lastOp.arg = <<"hi", Undefined>> /\ lastOp.ok = JsTrue
    /\ sockets[ws].sent[2].turnComplete = JsTrue

\* The place of an event in the order of a serverContent frame's events.
Rank(name) ==
    IF name = "turn_complete" THEN 1
    ELSE IF name = "audio" THEN 2
    ELSE IF name = "content" THEN 3
    ELSE 0

\* C23: the events of a serverContent frame that is not interrupted are
\* published in the order `turn_complete` (one, iff turnComplete is set), then
\* the `audio` events, then the one `content` event; a frame with turnComplete
\* and a modelTurn that has something to publish publishes both kinds.
C23_EventOrder ==
    (ServerContentFrame /\ Get(Response.serverContent, "interrupted") # JsTrue) =>
        /\ \A i \in DOMAIN emitted : Rank(emitted[i].name) # 0
        /\ \A i, j \in DOMAIN emitted :
              i < j => \/ Rank(emitted[i].name) < Rank(emitted[j].name)
                       \/ emitted[i].name = "audio" /\ emitted[j].name = "audio"
        /\ Len(EventsNamed("turn_complete")) =
              IF Get(Response.serverContent, "turnComplete") = JsTrue THEN 1 ELSE 0
        /\ (/\ PartsFrame
            /\ \E i \in DOMAIN Response.serverContent.modelTurn.parts :
                  LET p == Response.serverContent.modelTurn.parts[i]
                  IN FrameAudioWithData(p) \/ FrameOther(p)) =>
              \E i \in DOMAIN emitted : emitted[i].name \in {"audio", "content"}

\* The non-audio part comes first in the frame and its event last.
C23_Witness ==
    /\ ServerContentFrame
    /\ Response.serverContent =
          [turnComplete |-> JsTrue,
           modelTurn |-> [parts |-> <<TextPart, AudioPart, AudioRatePart>>]]
    /\ Len(emitted) = 4
    /\ emitted[1].name = "turn_complete" /\ emitted[4].name = "content"

\* C24: a close event with code 1000 sets no reconnect timer and leaves the
\* counter as it found it, whatever the counter's value.
C24_NormalClosureInert ==
    (lastOp.op = "close" /\ lastOp.code = 1000) =>
        /\ scheduled = <<>>
        /\ reconnectAttempts = lastOp.before

\* A normal closure that finds the counter at 1, below the maximum.
C24_Witness ==
    /\ lastOp.op = "close" /\ lastOp.code = 1000
    /\ lastOp.before = 1 /\ reconnectAttempts = 1

\* C25: every close event publishes exactly one `disconnected` event with the
\* closure's code and reason, whatever the code and the counter; it is published
\* before the close handler counts and schedules the reconnect (a listener sees
\* the counter as the closure found it), and the step makes no channel.
C25_DisconnectedOnClose ==
    /\ [](lastOp.op = "close" =>
             /\ Len(emitted) = 1
             /\ emitted[1].name = "disconnected"
             /\ emitted[1].ch = lastOp.ch
             /\ emitted[1].code = lastOp.code
             /\ emitted[1].reason = CloseReason(lastOp.code)
             /\ emitted[1].attempts = lastOp.before)
    /\ [](\A i \in DOMAIN emitted : emitted[i].name = "disconnected" => lastOp.op = "close")
    /\ [](\A c \in Channels :
             attempt[c].disconnected =
                IF sockets[c].readyState = "CLOSED" /\ closePending # c THEN 1 ELSE 0)
    /\ [][lastOp'.op = "close" => sockets'[lastOp'.ch].readyState = "CLOSED"
                                  /\ Len(sockets') = Len(sockets)]_vars

\* An abnormal closure with budget left: the event shows the counter at 1, the
\* handler then makes it 2 and sets the timer.
C25_Witness ==
    /\ lastOp.op = "close" /\ lastOp.code = 1001
    /\ emitted[1].attempts = 1 /\ reconnectAttempts = 2 /\ scheduled = <<4000>>

\* A channel other than the one the step just taken made is still connecting:
\* it was connecting when the step was taken.
OtherConnecting ==
    \E c \in Channels \ {lastOp.ch} : sockets[c].readyState = "CONNECTING"

\* C26: a reconnect timer that fires while the client is connected, or while a
\* channel made by an earlier connect() is still connecting, makes no channel,
\* writes no second setup message on the open channel and publishes no event.
C26_StaleTimerInert ==
    (lastOp.op = "timer" /\ (isConnected \/ OtherConnecting)) =>
        /\ lastOp.ch = NoChan
        /\ emitted = <<>>
        /\ isConnected => sockets[ws].sent = <<SetupMsg>>

\* The step just taken is the close event, with a non-normal code, of a channel
\* that had opened, and it found the counter below the maximum; the run may
\* still make a channel.
AbnormalCloseOfOpen ==
    /\ lastOp.op = "close" /\ lastOp.code # 1000
    /\ attempt[lastOp.ch].connected = 1
    /\ lastOp.before < 3
    /\ Len(sockets) < chanLimit

\* C27: when a channel that had opened closes abnormally while the counter is
\* below the maximum, and the caller never calls disconnect(), a new channel is
\* made at some later time (by the timer, if the caller makes none).
C27_EventuallyReconnects ==
    \A n \in 0..(MaxChannelsLive - 1) :
        (AbnormalCloseOfOpen /\ Len(sockets) = n) ~> (Len(sockets) > n)

\* The callbacks registered for the event of the emit just made, when it was
\* called.
Snapshot ==
    IF lastOp.arg[1] \in DOMAIN lastOp.pre THEN lastOp.pre[lastOp.arg[1]] ELSE <<>>

\* C28: emit(name, data) calls the callbacks that were registered for name when
\* it was called, each once per registration and in registration order, with
\* data; a callback registered for name by one of them is not called by the same
\* emit.
C28_EmitSnapshot ==
    lastOp.op = "emit" =>
        invoked = [i \in 1..Len(Snapshot) |-> [cb |-> Snapshot[i].id, data |-> lastOp.arg[2]]]

\* C29: the counter is always between 0 and 3; a step changes it only as an
\* abnormal closure that finds it below 3 and adds one, as an open that makes it
\* 0, or as a disconnect() that makes it 3.
C29_CounterWriters ==
    /\ [](reconnectAttempts \in 0..3)
    /\ [][reconnectAttempts' # reconnectAttempts =>
             \/ /\ lastOp'.op = "close" /\ lastOp'.code # 1000
                /\ reconnectAttempts < 3
                /\ reconnectAttempts' = reconnectAttempts + 1
             \/ lastOp'.op = "open" /\ reconnectAttempts' = 0
             \/ lastOp'.op = "disconnect" /\ reconnectAttempts' = 3]_vars

\* An abnormal closure that finds the counter at the maximum leaves it there.
C29_Witness ==
    /\ lastOp.op = "close" /\ lastOp.code = 1006 /\ lastOp.before = 3
    /\ reconnectAttempts = 3 /\ scheduled = <<>>

\* The channels in one of the given states.
ChannelsIn(states) == {c \in Channels : sockets[c].readyState \in states}

\* C30: isConnecting is true exactly when one channel is connecting, and at
\* most one channel is connecting or open.
C30_FlagTracksChannel ==
    /\ isConnecting <=> Cardinality(ChannelsIn({"CONNECTING"})) = 1
    /\ Cardinality(ChannelsIn({"CONNECTING", "OPEN"})) <= 1

\* C31: at most one reconnect timer is pending.
C31_OneTimerPending == BagCardinality(timers) <= 1

\* The frame publishes an event when it is dispatched: it is of one of the
\* three kinds (every such frame of the stream publishes at least one).
Publishes(frame) == DOMAIN frame \cap {"toolCall", "toolCallCancellation", "serverContent"} # {}

\* The sequence seq without its i-th element.
Without(seq, i) == SubSeq(seq, 1, i - 1) \o SubSeq(seq, i + 1, Len(seq))

\* C32: the events of the frames are published in the order the frames
\* arrived: when the events of a frame are published, no frame that arrived
\* before it and publishes events is still being decoded.
C32_ArrivalOrder ==
    [][(lastOp'.op = "receive" /\ emitted' # <<>>) =>
          \E i \in DOMAIN decoding :
              /\ decoding' = Without(decoding, i)
              /\ decoding[i].response = lastOp'.arg[1]
              /\ \A j \in 1..(i - 1) : ~Publishes(decoding[j].response)]_vars

\* C33: from a disconnect() on, until a channel opens again (this.ws is null
\* all that time, and at no other time once a frame was received), receive()
\* publishes no event, also for a frame that was being decoded when
\* disconnect() was called.
C33_SilentAfterDisconnect ==
    (lastOp.op = "receive" /\ ws = NoChan) => emitted = <<>>

====
